---- MODULE Spec2Model ----
(***************************************************************************)
(* A model of gitree's tree-construction engine and output writer:         *)
(*   build_tree_data, format_json, format_text_tree, write_outputs         *)
(*     (src/gitree/services/output_formatters.py)                          *)
(*   list_entries and its filters (src/structure.py)                       *)
(*                                                                         *)
(* Text is modelled at character level: a Python str is a sequence of      *)
(* one-character strings, so that prefix tests, glob matching, case        *)
(* folding and lexicographic comparison are computed, not assumed.  A Path *)
(* is the sequence of its components below the traversal root.             *)
(***************************************************************************)
EXTENDS Integers, Sequences, FiniteSets, TLC

(***************************************************************************)
(* Bounds of the model.                                                    *)
(***************************************************************************)
\* depth bounds 0..MaxDepth (and None) are tried; the filesystem is three
\* levels deep, so None lists everything
MaxDepth == 2
\* item caps 1..MaxItems (and None) are tried
MaxItems == 2
\* gitignore depth bounds 0..MaxGitignoreDepth (and None) are tried
MaxGitignoreDepth == 1

\* the number of links the operating system follows in resolving one path
\* before it gives up with ELOOP (40 on Linux)
SymloopMax == 2
\* the interpreter's limit on nested calls (1000 by default)
RecursionLimit == 12

\* Python's None for an Optional[int] argument (never a valid bound or cap)
None == -1

(***************************************************************************)
(* str                                                                     *)
(***************************************************************************)
\* ord(c) for the characters the model's names and patterns are made of
Ord(c) ==
  CASE c = " " -> 32 [] c = "!" -> 33 [] c = "#" -> 35 [] c = "*" -> 42
    [] c = "." -> 46 [] c = "/" -> 47 [] c = "?" -> 63
    [] c = "B" -> 66 [] c = "E" -> 69 [] c = "K" -> 75
    [] c = "a" -> 97 [] c = "b" -> 98 [] c = "c" -> 99 [] c = "d" -> 100
    [] c = "e" -> 101 [] c = "g" -> 103 [] c = "h" -> 104 [] c = "i" -> 105
    [] c = "k" -> 107 [] c = "l" -> 108 [] c = "n" -> 110 [] c = "o" -> 111
    [] c = "p" -> 112 [] c = "r" -> 114 [] c = "s" -> 115 [] c = "t" -> 116
    [] c = "x" -> 120

\* str.lower() on one character
LowerChar(c) ==
  CASE c = "B" -> "b" [] c = "E" -> "e" [] c = "K" -> "k" [] OTHER -> c

\* str.lower()
Lower(s) == [i \in 1..Len(s) |-> LowerChar(s[i])]

\* s < t on str: lexicographic by code point
RECURSIVE StrLess(_, _)
StrLess(s, t) ==
  IF t = <<>> THEN FALSE
  ELSE IF s = <<>> THEN TRUE
  ELSE IF Ord(Head(s)) # Ord(Head(t)) THEN Ord(Head(s)) < Ord(Head(t))
  ELSE StrLess(Tail(s), Tail(t))

\* s.startswith(p)
StartsWith(s, p) == Len(p) <= Len(s) /\ SubSeq(s, 1, Len(p)) = p

\* s.lstrip(c)
RECURSIVE LStrip(_, _)
LStrip(s, c) == IF s # <<>> /\ Head(s) = c THEN LStrip(Tail(s), c) ELSE s

\* s.rstrip(c)
RECURSIVE RStrip(_, _)
RStrip(s, c) ==
  IF s # <<>> /\ s[Len(s)] = c THEN RStrip(SubSeq(s, 1, Len(s) - 1), c) ELSE s

\* s.strip(): the only whitespace of the model's texts is the blank
Strip(s) == RStrip(LStrip(s, " "), " ")

\* s.split(sep) for a one-character separator: the sequence of the pieces
RECURSIVE Split(_, _)
Split(s, sep) ==
  IF \A i \in 1..Len(s) : s[i] # sep THEN <<s>>
  ELSE LET i == CHOOSE j \in 1..Len(s) :
                  s[j] = sep /\ \A m \in 1..(j - 1) : s[m] # sep
       IN  <<SubSeq(s, 1, i - 1)>> \o Split(SubSeq(s, i + 1, Len(s)), sep)

\* sep.join(parts)
RECURSIVE Join(_, _)
Join(parts, sep) ==
  IF parts = <<>> THEN <<>>
  ELSE IF Len(parts) = 1 THEN parts[1]
  ELSE parts[1] \o sep \o Join(Tail(parts), sep)

(***************************************************************************)
(* The filesystem under the traversal root /r.                             *)
(*                                                                         *)
(*   r/  .gitignore  .h  B.p  a.t  k.l                                     *)
(*       s/   .gitignore  c.t  k.l                                         *)
(*            t/   d.t  k.l                                                *)
(*       sx/  .gitignore  E.p  e.p  o (a dangling link: no file, no dir)   *)
(*                                                                         *)
(* The .gitignore files' lines and the order in which the operating system *)
(* enumerates a directory are inputs (fs.gi, fs.order), and so are what    *)
(* the root is (fs.root: a directory, a file, or absent), the directories  *)
(* whose listing is denied (fs.denied) and the directories whose           *)
(* .gitignore cannot be read (fs.unreadable), and where r/sx/o leads when   *)
(* it is a link to a directory (fs.links).                                 *)
(***************************************************************************)
n_gitignore == <<".", "g", "i", "t", "i", "g", "n", "o", "r", "e">>
n_h   == <<".", "h">>
n_Bp  == <<"B", ".", "p">>
n_at  == <<"a", ".", "t">>
n_kl  == <<"k", ".", "l">>
n_s   == <<"s">>
n_sx  == <<"s", "x">>
n_ct  == <<"c", ".", "t">>
n_t   == <<"t">>
n_dt  == <<"d", ".", "t">>
n_Ep  == <<"E", ".", "p">>
n_ep  == <<"e", ".", "p">>
n_o   == <<"o">>

\* root.name and str(root.absolute())
RootName == <<"r">>
RootAbs  == <<"/", "r">>

\* the directories and what each holds, in one fixed enumeration order
DirPaths == { <<>>, <<n_s>>, <<n_s, n_t>>, <<n_sx>> }
Listing(d) ==
  CASE d = <<>>          -> <<n_gitignore, n_h, n_Bp, n_at, n_kl, n_s, n_sx>>
    [] d = <<n_s>>       -> <<n_gitignore, n_ct, n_kl, n_t>>
    [] d = <<n_s, n_t>>  -> <<n_dt, n_kl>>
    [] d = <<n_sx>>      -> <<n_gitignore, n_ep, n_Ep, n_o>>
    [] OTHER             -> <<>>

\* every path of the filesystem below the root
EntryPaths ==
  UNION { { Append(d, Listing(d)[i]) : i \in 1..Len(Listing(d)) } : d \in DirPaths }

\* Path.is_dir() / Path.is_file(): the dangling link o is neither
is_dir(p)  == p \in DirPaths
is_file(p) == p \in EntryPaths /\ p \notin DirPaths /\ p[Len(p)] # n_o

\* Path.name, Path.relative_to(root).as_posix(), str(Path.absolute())
NameOf(p)   == IF p = <<>> THEN RootName ELSE p[Len(p)]
RelPosix(p) == IF p = <<>> THEN <<".">> ELSE Join(p, <<"/">>)
AbsStr(p)   == IF p = <<>> THEN RootAbs ELSE RootAbs \o <<"/">> \o Join(p, <<"/">>)

Reverse(s) == [i \in 1..Len(s) |-> s[Len(s) + 1 - i]]

\* Path.iterdir(): the children of d in the order the operating system gives
iterdir(fs, d) ==
  LET names == IF fs.order = "rev" THEN Reverse(Listing(d)) ELSE Listing(d)
  IN  [i \in 1..Len(names) |-> Append(d, names[i])]

(***************************************************************************)
(* Glob matching.                                                          *)
(***************************************************************************)
\* fnmatch.fnmatchcase(s, pat): * is any run of characters (a "/" included),
\* ? is any one character, every other character is itself
RECURSIVE fnmatchcase(_, _)
fnmatchcase(s, pat) ==
  IF pat = <<>> THEN s = <<>>
  ELSE IF Head(pat) = "*"
    THEN fnmatchcase(s, Tail(pat)) \/ (s # <<>> /\ fnmatchcase(Tail(s), pat))
  ELSE IF Head(pat) = "?" THEN s # <<>> /\ fnmatchcase(Tail(s), Tail(pat))
  ELSE s # <<>> /\ Head(s) = Head(pat) /\ fnmatchcase(Tail(s), Tail(pat))

\* gitwildmatch, one path segment against one pattern segment: a segment that
\* is "*" alone is [^/]+, inside a segment * is [^/]* and ? is [^/]
SegMatch(seg, pseg) ==
  IF pseg = <<"*">> THEN seg # <<>> ELSE fnmatchcase(seg, pseg)

DoubleStar == <<"*", "*">>

\* pathspec's "no regex" (blank line, comment, "/"): it matches nothing
NoRegex == [regex |-> FALSE, include |-> FALSE, segs |-> <<>>]

\* gitwildmatch, the end of the normalisation: a trailing "/" (an empty last
\* segment) becomes a trailing **
CompileAnchored(anchored, include) ==
  IF anchored = <<>> THEN NoRegex
  ELSE [regex |-> TRUE, include |-> include,
        segs |-> IF Len(anchored) > 1 /\ anchored[Len(anchored)] = <<>>
                 THEN [anchored EXCEPT ![Len(anchored)] = DoubleStar]
                 ELSE anchored]

\* gitwildmatch, the pattern cut at its "/"s: a leading "/" anchors it at the
\* root, a pattern of one segment (a trailing "/" aside) matches at any depth,
\* and a pattern with a "/" inside is relative to the root
CompileSegs(segs, include) ==
  CompileAnchored(
    IF segs[1] = <<>> THEN Tail(segs)
    ELSE IF (Len(segs) = 1 \/ (Len(segs) = 2 /\ segs[2] = <<>>))
            /\ segs[1] # DoubleStar
      THEN <<DoubleStar>> \o segs
    ELSE segs,
    include)

CompileStripped(stripped) ==
  IF stripped = <<>> \/ Head(stripped) = "#" \/ stripped = <<"/">> THEN NoRegex
  ELSE IF Head(stripped) = "!" THEN CompileSegs(Split(Tail(stripped), "/"), FALSE)
  ELSE CompileSegs(Split(stripped, "/"), TRUE)

\* gitwildmatch: a pattern line compiled to (regex, include, segments)
GitWildMatchPattern(line) == CompileStripped(Strip(line))

\* the compiled regex against a path cut at its "/"s: a leading ** skips any
\* number of leading directories, a trailing ** wants something below, and a
\* pattern whose last segment matched also matches everything below it
RECURSIVE MatchSegs(_, _, _)
MatchSegs(ps, ts, atStart) ==
  IF ps = <<>> THEN TRUE
  ELSE IF Head(ps) = DoubleStar
    THEN IF Tail(ps) = <<>>
           THEN IF atStart THEN ts # <<>> /\ ts[1] # <<>> ELSE ts # <<>>
           ELSE \E k \in 0..Len(ts) :
                   MatchSegs(Tail(ps), SubSeq(ts, k + 1, Len(ts)), FALSE)
  ELSE ts # <<>> /\ SegMatch(Head(ts), Head(ps))
         /\ MatchSegs(Tail(ps), Tail(ts), FALSE)

\* one pattern of the spec: a pattern that matches overrides what was decided
LastMatch(pat, file, matched) ==
  IF pat.regex /\ MatchSegs(pat.segs, Split(file, "/"), TRUE)
  THEN pat.include ELSE matched

\* pathspec.PathSpec.from_lines("gitwildmatch", patterns).match_file(file):
\* the patterns are tried in order and the last one that matches decides
RECURSIVE match_file_from(_, _, _, _)
match_file_from(patterns, i, file, matched) ==
  IF i > Len(patterns) THEN matched
  ELSE match_file_from(patterns, i + 1, file,
         LastMatch(GitWildMatchPattern(patterns[i]), file, matched))

match_file(patterns, file) == match_file_from(patterns, 1, file, FALSE)

\* GitIgnoreMatcher.is_ignored, with the spec compiled for the directory being
\* listed: a directory is also tried with a trailing "/"
is_ignored(patterns, p) ==
  \/ match_file(patterns, RelPosix(p))
  \/ is_dir(p) /\ match_file(patterns, RelPosix(p) \o <<"/">>)


(***************************************************************************)
(* list_entries: one directory's filtered, sorted, capped children.        *)
(***************************************************************************)
\* list_entries._hidden
_hidden(p) == Head(NameOf(p)) = "."

\* the mutant of _matches_extra: the bare name alone is tried
_matches_extra_name_only(p, extra_ignores) ==
  \E i \in 1..Len(extra_ignores) : fnmatchcase(NameOf(p), extra_ignores[i])

\* list_entries._matches_extra: either the root-relative posix path or the
\* bare name matches one of the extra-exclude globs
_matches_extra(p, extra_ignores) ==
  \E i \in 1..Len(extra_ignores) :
     \/ fnmatchcase(RelPosix(p), extra_ignores[i])
     \/ fnmatchcase(NameOf(p), extra_ignores[i])

\* the filter loop of list_entries on one entry: TRUE when the entry is kept
Keeps(e, patterns, o) ==
  /\ ~(~o.show_all /\ _hidden(e))
  /\ ~is_ignored(patterns, e)
  /\ ~_matches_extra(e, o.extra_ignores)

\* the "no files" step: plain files are dropped when the flag is set
DropsFile(e, no_files) == no_files /\ is_file(e)

\* the mutant of KeyLess: the names compared as they are, case not folded
KeyLessCaseSensitive(a, b) ==
  IF is_file(a) # is_file(b) THEN is_file(b)
  ELSE StrLess(NameOf(a), NameOf(b))

\* the sort key (x.is_file(), x.name.lower()) compared as Python compares
\* tuples: KeyLess(a, b) is key(a) < key(b)
KeyLess(a, b) ==
  IF is_file(a) # is_file(b) THEN is_file(b)
  ELSE StrLess(Lower(NameOf(a)), Lower(NameOf(b)))

\* list.sort(key=...): stable, so entries with equal keys keep the order they
\* were enumerated in
RECURSIVE SortEntries(_)
SortEntries(seq) ==
  IF seq = <<>> THEN <<>>
  ELSE LET x    == seq[Len(seq)]
           rest == SortEntries(SubSeq(seq, 1, Len(seq) - 1))
           \* x goes after every element whose key is <= key(x)
           n    == Cardinality({i \in 1..Len(rest) : ~KeyLess(x, rest[i])})
       IN  SubSeq(rest, 1, n) \o <<x>> \o SubSeq(rest, n + 1, Len(rest))

\* the cap: the list cut to max_items and the number of entries cut off
Truncate(sorted, max_items) ==
  IF max_items # None /\ Len(sorted) > max_items
  THEN [entries |-> SubSeq(sorted, 1, max_items),
        truncated |-> Len(sorted) - max_items]
  ELSE [entries |-> sorted, truncated |-> 0]

\* list_entries, the try around list(directory.iterdir()): a permission error
\* makes the directory an empty one
ListItems(fs, directory) ==
  IF directory \in fs.denied THEN <<>> ELSE iterdir(fs, directory)

\* list_entries(directory, root, gi, spec, show_all, extra_ignores, max_items,
\*              ignore_depth, no_files) -> (entries, truncated)
list_entries(fs, directory, patterns, o, no_files) ==
  LET items    == ListItems(fs, directory)
      Kept(e)  == Keeps(e, patterns, o) /\ ~DropsFile(e, no_files)
      filtered == SelectSeq(items, Kept)
  IN  Truncate(SortEntries(filtered), o.max_items)


(***************************************************************************)
(* build_tree_data.                                                        *)
(*                                                                         *)
(* Python lists are objects: `heap` is the sequence of the pattern lists   *)
(* allocated so far, and the `patterns` variable of an activation of rec   *)
(* holds an index into it.  rec returns, with the children it built, the   *)
(* heap it leaves and two observations of the run:                         *)
(*   used:  for every directory listed, the patterns its spec was compiled *)
(*          from (line 59), in visiting order;                             *)
(*   calls: for every recursive call (line 101), the caller's pattern list *)
(*          before and after the call.                                     *)
(***************************************************************************)
\* GitIgnoreMatcher.within_depth: gitignore files are honoured down to the
\* bound inclusive; no bound, no limit
within_depth(dirpath, gitignore_depth) ==
  gitignore_depth = None \/ Len(dirpath) <= gitignore_depth

\* rec, lines 51-53: the lines of a .gitignore that are skipped
SkipsLine(line) == Strip(line) = <<>> \/ Head(Strip(line)) = "#"

\* rec, lines 48-49
PrefixPath(dirpath) ==
  IF RelPosix(dirpath) = <<".">> THEN <<>> ELSE RelPosix(dirpath) \o <<"/">>

\* rec, lines 51-57, for a line that is not skipped: the rule accumulated
RewriteStripped(prefix_path, line) ==
  IF Head(line) = "!"
  THEN <<"!">> \o prefix_path \o LStrip(Tail(line), "/")
  ELSE prefix_path \o LStrip(line, "/")

RewriteLine(prefix_path, raw) == RewriteStripped(prefix_path, Strip(raw))

\* a mutant of AppendPattern: the new rule put before the accumulated ones
AppendPatternFront(p, heap, rule) ==
  [p |-> Len(heap) + 1, heap |-> Append(heap, <<rule>> \o heap[p])]

\* the mutant of AppendPattern: patterns.append(rule), the caller's list itself
AppendPatternInPlace(p, heap, rule) ==
  [p |-> p, heap |-> [heap EXCEPT ![p] = @ \o <<rule>>]]

\* rec, line 57: patterns = patterns + [rule] builds a new list and rebinds
\* the local variable; the list the caller passed is left as it was
AppendPattern(p, heap, rule) ==
  [p |-> Len(heap) + 1, heap |-> Append(heap, heap[p] \o <<rule>>)]

\* rec, lines 50-57: the loop over the lines of the directory's .gitignore
RECURSIVE ReadLines(_, _, _, _, _)
ReadLines(lines, i, prefix_path, p, heap) ==
  IF i > Len(lines) THEN [p |-> p, heap |-> heap]
  ELSE IF SkipsLine(lines[i]) THEN ReadLines(lines, i + 1, prefix_path, p, heap)
  ELSE LET Go(a) == ReadLines(lines, i + 1, prefix_path, a.p, a.heap)
       IN  Go(AppendPattern(p, heap, RewriteLine(prefix_path, lines[i])))

\* rec, line 50: gi_path.read_text(encoding="utf-8", errors="ignore")
\* .splitlines(); undecodable bytes are dropped, but a file that cannot be
\* opened raises, and nothing in rec or build_tree_data catches it
ReadText(fs, dirpath) ==
  IF dirpath \in fs.unreadable
  THEN [raised |-> TRUE, lines |-> <<>>]
  ELSE [raised |-> FALSE, lines |-> fs.gi[dirpath]]

\* rec, lines 45-57; raised: an exception left the block
ReadGitignore(fs, o, dirpath, p, heap) ==
  LET Done(g, raised) == [p |-> g.p, heap |-> g.heap, raised |-> raised]
      Lines(text) ==
        IF text.raised THEN Done([p |-> p, heap |-> heap], TRUE)
        ELSE Done(ReadLines(text.lines, 1, PrefixPath(dirpath), p, heap), FALSE)
  IN  IF /\ o.respect_gitignore
         /\ within_depth(dirpath, o.gitignore_depth)
         /\ is_file(Append(dirpath, n_gitignore))
      THEN Lines(ReadText(fs, dirpath))
      ELSE Done([p |-> p, heap |-> heap], FALSE)

\* the mutant of DepthReached: the bound compared one level too late
DepthReachedLate(depth, current_depth) == depth # None /\ current_depth > depth

\* rec, line 41
DepthReached(depth, current_depth) == depth # None /\ current_depth >= depth

\* the mutant of CallListEntries: the no-files flag is not handed on
CallListEntriesWithFiles(fs, o, dirpath, patterns) ==
  list_entries(fs, dirpath, patterns, o, FALSE)

\* rec, lines 62-72: the call of list_entries
CallListEntries(fs, o, dirpath, patterns) ==
  list_entries(fs, dirpath, patterns, o, o.no_files)

\* rec, lines 76-85: TRUE when the whitelist keeps the entry
WhitelistKeeps(whitelist, entry) ==
  IF ~whitelist.given THEN TRUE
  ELSE IF is_file(entry) THEN AbsStr(entry) \in whitelist.paths
  ELSE IF is_dir(entry)
    THEN \E f \in whitelist.paths : StartsWith(f, AbsStr(entry))
  ELSE TRUE

\* the name of the truncation marker, f"... and {truncated} more items"
MarkerName(truncated) == <<"... and ", ToString(truncated), " more items">>

\* a mutant of AddMarker: no marker in a directory left with no children
AddMarkerUnlessEmpty(children, truncated) ==
  IF truncated > 0 /\ children # <<>>
  THEN Append(children, [name |-> MarkerName(truncated), type |-> "truncated"])
  ELSE children

\* the mutant of AddMarker: the marker carries the number of entries listed
AddMarkerCountsListed(children, truncated) ==
  IF truncated > 0
  THEN Append(children, [name |-> MarkerName(Len(children)), type |-> "truncated"])
  ELSE children

\* rec, lines 105-110
AddMarker(children, truncated) ==
  IF truncated > 0
  THEN Append(children, [name |-> MarkerName(truncated), type |-> "truncated"])
  ELSE children

RECURSIVE rec(_, _, _, _, _, _), BuildChildren(_, _, _, _, _, _, _)

\* rec, lines 90-103: the loop over the entries, from the i-th on
BuildChildren(fs, o, entries, i, current_depth, p, heap) ==
  IF i > Len(entries)
  THEN [children |-> <<>>, heap |-> heap, used |-> <<>>, calls |-> <<>>,
        raised |-> FALSE]
  ELSE LET entry == entries[i]
           File(more) ==
             [more EXCEPT !.children =
                <<[name |-> NameOf(entry), type |-> "file"]>> \o @]
           Dir(sub, more) ==
             [children |-> <<[name |-> NameOf(entry), type |-> "directory",
                              children |-> sub.children]>> \o more.children,
              heap     |-> more.heap,
              used     |-> sub.used \o more.used,
              calls    |-> <<[dir |-> entry, before |-> heap[p],
                              after |-> sub.heap[p]]>>
                             \o sub.calls \o more.calls,
              raised   |-> more.raised]
           Recursed(sub) ==
             IF sub.raised THEN sub
             ELSE Dir(sub, BuildChildren(fs, o, entries, i + 1, current_depth, p,
                                         sub.heap))
       IN  IF is_file(entry)
           THEN File(BuildChildren(fs, o, entries, i + 1, current_depth, p, heap))
           ELSE IF is_dir(entry)
           THEN Recursed(rec(fs, o, entry, current_depth + 1, p, heap))
           ELSE BuildChildren(fs, o, entries, i + 1, current_depth, p, heap)

\* rec(dirpath, current_depth, patterns)
rec(fs, o, dirpath, current_depth, patterns, heap0) ==
  IF DepthReached(o.depth, current_depth)
  THEN [children |-> <<>>, heap |-> heap0, used |-> <<>>, calls |-> <<>>,
        raised |-> FALSE]
  ELSE LET Kept(e) == WhitelistKeeps(o.whitelist, e)
           Result(g, listed, built) ==
             [children |-> AddMarker(built.children, listed.truncated),
              heap     |-> built.heap,
              used     |-> <<[dir |-> dirpath, patterns |-> g.heap[g.p]]>>
                             \o built.used,
              calls    |-> built.calls,
              raised   |-> built.raised]
           Listed(g, listed) ==
             Result(g, listed,
                    BuildChildren(fs, o, SelectSeq(listed.entries, Kept), 1,
                                  current_depth, g.p, g.heap))
           Read(g) ==
             IF g.raised
             THEN [children |-> <<>>, heap |-> g.heap, used |-> <<>>,
                   calls |-> <<>>, raised |-> TRUE]
             ELSE Listed(g, CallListEntries(fs, o, dirpath, g.heap[g.p]))
       IN  Read(ReadGitignore(fs, o, dirpath, patterns, heap0))

\* build_tree_data, line 114: root.is_dir()
RootIsDir(fs) == fs.root = "dir"

\* build_tree_data(root, depth=..., ...): the tree, with the observations of
\* the run; rec starts on the list [] (the first list of the heap)
build_tree_data(fs, o) ==
  LET Root(r) ==
        [tree   |-> [name |-> RootName, type |-> "directory", children |-> r.children],
         used   |-> r.used,
         calls  |-> r.calls,
         raised |-> r.raised]
  IN  IF RootIsDir(fs)
      THEN Root(rec(fs, o, <<>>, 0, 1, << <<>> >>))
      ELSE Root([children |-> <<>>, used |-> <<>>, calls |-> <<>>,
                 raised |-> FALSE])

(***************************************************************************)
(* Formatters.  A text is the sequence of its pieces: the characters of a  *)
(* name, and one token for each glyph, keyword or line break.              *)
(***************************************************************************)
\* the drawing glyphs and the icons, each one token
BRANCH == "BRANCH"
LAST   == "LAST"
VERT   == "VERT"
SPACE  == "SPACE"
FILE_EMOJI       == "FILE_EMOJI"
NORMAL_DIR_EMOJI == "NORMAL_DIR_EMOJI"
NL == "\n"
\* the three backquotes that open and close a fenced code block
FENCE == "FENCE"

ChildrenOf(node) == IF node.type = "directory" THEN node.children ELSE <<>>

\* the mutant of TextLine: the icon is put in front whatever the flag says
TextLineIconAlways(child, prefix, connector, emoji) ==
  IF child.type = "truncated" THEN prefix \o <<connector>> \o child.name
  ELSE prefix \o <<connector>>
         \o <<IF child.type = "file" THEN FILE_EMOJI ELSE NORMAL_DIR_EMOJI>>
         \o <<" ">> \o child.name
         \o (IF emoji /\ child.type = "directory" THEN <<"/">> ELSE <<>>)

\* format_text_tree.rec, lines 144-161: the line of one child
TextLine(child, prefix, connector, emoji) ==
  IF child.type = "truncated" THEN prefix \o <<connector>> \o child.name
  ELSE IF emoji
    THEN prefix \o <<connector>> \o child.name
           \o (IF child.type = "directory" THEN <<"/">> ELSE <<>>)
  ELSE prefix \o <<connector>>
         \o <<IF child.type = "file" THEN FILE_EMOJI ELSE NORMAL_DIR_EMOJI>>
         \o <<" ">> \o child.name

\* the mutant of Connector: the corner goes to the first child
ConnectorFirstCorner(i, n) == IF i = 1 THEN LAST ELSE BRANCH

\* format_text_tree.rec, lines 141-142: the connector of the i-th of n children
Connector(i, n) == IF i = n THEN LAST ELSE BRANCH

\* format_text_tree.rec: the lines of the children of node, from the i-th on
RECURSIVE TextRec(_, _, _, _)
TextRec(node, prefix, emoji, i) ==
  LET children == ChildrenOf(node)
  IN  IF i > Len(children) THEN <<>>
      ELSE LET child     == children[i]
               is_last   == i = Len(children)
               connector == Connector(i, Len(children))
               below     == IF child.type # "truncated" /\ ChildrenOf(child) # <<>>
                            THEN TextRec(child,
                                   prefix \o <<IF is_last THEN SPACE ELSE VERT>>,
                                   emoji, 1)
                            ELSE <<>>
           IN  <<TextLine(child, prefix, connector, emoji)>> \o below
                 \o TextRec(node, prefix, emoji, i + 1)

\* the lines format_text_tree collects
TextLines(tree, emoji) == <<tree.name>> \o TextRec(tree, <<>>, emoji, 1)

\* format_text_tree(tree_data, emoji): "\n".join(lines)
format_text_tree(tree, emoji) == Join(TextLines(tree, emoji), <<NL>>)

Indent(level) == [i \in 1..level |-> "  "]

JsonString(chars) == <<"\"">> \o chars \o <<"\"">>

\* json.dumps(node, indent=2, ensure_ascii=False) at nesting `level`: the keys
\* in insertion order, "children" only on the nodes that have the key
RECURSIVE JsonNode(_, _), JsonItems(_, _, _)
JsonNode(node, level) ==
  <<"{", NL>> \o Indent(level + 1) \o <<"\"name\": ">> \o JsonString(node.name)
    \o <<",", NL>> \o Indent(level + 1) \o <<"\"type\": ">> \o JsonString(<<node.type>>)
    \o (IF node.type = "directory"
        THEN <<",", NL>> \o Indent(level + 1) \o <<"\"children\": ">>
               \o (IF node.children = <<>> THEN <<"[]">>
                   ELSE <<"[", NL>> \o JsonItems(node.children, 1, level + 2)
                          \o <<NL>> \o Indent(level + 1) \o <<"]">>)
        ELSE <<>>)
    \o <<NL>> \o Indent(level) \o <<"}">>

JsonItems(items, i, level) ==
  Indent(level) \o JsonNode(items[i], level)
    \o (IF i = Len(items) THEN <<>>
        ELSE <<",", NL>> \o JsonItems(items, i + 1, level))

\* format_json(tree_data)
format_json(tree) == JsonNode(tree, 0)

\* write_outputs, line 203: the text wrapped in a fenced code block
MarkdownWrap(content) == <<FENCE, NL>> \o content \o <<NL, FENCE, NL>>

(***************************************************************************)
(* Inputs.                                                                 *)
(***************************************************************************)
l_star_l  == <<"*", ".", "l">>
l_not_kl  == <<"!", "k", ".", "l">>
l_kl_sp   == <<" ", "k", ".", "l", " ">>
l_comment == <<"#", " ", "c">>
l_abs_kl  == <<"/", "k", ".", "l">>
l_t_dir   == <<"t", "/">>
l_not_ep  == <<"!", "e", ".", "p">>
l_star_p  == <<"*", ".", "p">>

\* the contents of the three .gitignore files (r, r/s, r/sx), as lines:
\* an ancestor's rule negated below; a negation re-ignored below; anchored and
\* directory rules
gi_negated ==
  (<<>> :> <<l_star_l>>) @@ (<<n_s>> :> <<l_not_kl>>) @@ (<<n_sx>> :> <<>>)
gi_reignored ==
  (<<>> :> <<l_star_l, l_not_kl>>) @@ (<<n_s>> :> <<l_kl_sp, l_comment, <<>>>>)
     @@ (<<n_sx>> :> <<n_Ep>>)
gi_anchored ==
  (<<>> :> <<l_abs_kl, l_t_dir>>) @@ (<<n_s>> :> <<n_ct>>)
     @@ (<<n_sx>> :> <<l_star_p, l_not_ep>>)

GitignoreContents == { gi_negated, gi_reignored, gi_anchored }

\* the filesystems with nothing wrong: the root is a directory, every
\* directory can be listed and every .gitignore read
NoLinks == [p \in {} |-> <<>>]

FsStates ==
  [gi : GitignoreContents, order : {"fwd", "rev"},
   root : {"dir"}, denied : {{}}, unreadable : {{}}, links : {NoLinks}]

\* the filesystems in which r/sx/o is a link to a directory above it: to the
\* root, or to r/sx itself
LinkedFsStates ==
  [gi : {gi_negated}, order : {"fwd", "rev"},
   root : {"dir"}, denied : {{}}, unreadable : {{}},
   links : { NoLinks, <<n_sx, n_o>> :> <<>>, <<n_sx, n_o>> :> <<n_sx>> }]

\* the filesystems with something wrong: the root a file or absent, listings
\* denied, .gitignore files that cannot be read
FaultyFsStates ==
  [gi : GitignoreContents, order : {"fwd"},
   root : {"dir", "file", "absent"},
   denied : SUBSET {<<n_s>>, <<n_sx>>},
   unreadable : SUBSET {<<>>, <<n_s>>},
   links : {NoLinks}]

g_sct == <<"s", "/", "c", ".", "t">>

\* the extra-exclude lists tried
ExtraIgnores == { <<>>, <<l_star_p>>, <<g_sct, n_t>> }

\* the whitelists tried: none, and sets of absolute paths of files
Whitelists ==
  { [given |-> FALSE, paths |-> {}] } \cup
  { [given |-> TRUE, paths |-> { AbsStr(f) : f \in W }] :
      W \in { {}, { <<n_at>>, <<n_s, n_ct>> }, { <<n_sx, n_ep>> },
              { <<n_Bp>>, <<n_s, n_t, n_dt>> } } }

OptInt(max) == {None} \cup 0..max

Options ==
  [ depth             : OptInt(MaxDepth),
    show_all          : BOOLEAN,
    extra_ignores     : ExtraIgnores,
    respect_gitignore : BOOLEAN,
    gitignore_depth   : OptInt(MaxGitignoreDepth),
    max_items         : {None} \cup 1..MaxItems,
    no_files          : BOOLEAN,
    whitelist         : Whitelists ]

\* the option bundles whose trees the output writer is run on
WriteOptions ==
  { o \in Options :
      /\ o.depth \in {None, 0, 1}
      /\ o.max_items \in {None, 1}
      /\ ~o.show_all /\ ~o.no_files
      /\ o.whitelist.given => o.whitelist.paths = { AbsStr(<<n_sx, n_ep>>) }
      /\ o.extra_ignores = <<>>
      /\ o.respect_gitignore /\ o.gitignore_depth = None }

\* the three destinations of write_outputs, in the order they are written
Destinations == {"json", "txt", "md"}

(***************************************************************************)
(* State.                                                                  *)
(***************************************************************************)
VARIABLES
  fs,         \* the filesystem: .gitignore contents and enumeration order
  opt,        \* the option bundle of the build_tree_data call
  pc,         \* "start", then "built", or "raised" when an exception left the call
  tree_data,  \* the tree build_tree_data returned
  used,       \* observation: the pattern list each listed directory used
  calls,      \* observation: the caller's list around each recursive call
  emoji,      \* write_outputs' emoji argument
  paths,      \* per destination: TRUE when a path is given (not None, not "")
  disk,       \* per destination: whether the file exists, and its content
  wpc,        \* write_outputs' position: "idle", a destination, "returned", "raised"
  done,       \* observation: the destinations written completely in this call
  failed,     \* observation: the destinations whose write failed in this call
  stack,      \* the activations of rec, step by step: the outermost first
  wk          \* where the stepwise recursion is, and how deep it has been

vars ==
  <<fs, opt, pc, tree_data, used, calls, emoji, paths, disk, wpc, done, failed,
    stack, wk>>

walkVars == <<stack, wk>>

buildVars == <<fs, opt, pc, tree_data, used, calls>>

NoTree == [name |-> <<>>, type |-> "none"]
Absent == [exists |-> FALSE, content |-> <<>>]
\* a file left at the destination by an earlier run
OldFile == [exists |-> TRUE, content |-> <<"old">>]

\* before write_outputs is called: nothing on disk
WriterIdle ==
  /\ emoji = FALSE
  /\ paths = [d \in Destinations |-> FALSE]
  /\ disk = [d \in Destinations |-> Absent]
  /\ wpc = "idle"
  /\ done = {}
  /\ failed = {}

\* the names of a sequence of entries
PathNamesOf(entries) == [i \in 1..Len(entries) |-> NameOf(entries[i])]

\* the stepwise recursion is not running
WalkerIdle == stack = <<>> /\ wk = [at |-> "idle", deepest |-> 0, ls |-> <<>>]

\* With respect_gitignore off neither gitignore_depth nor the contents of the
\* .gitignore files are read, so one value of each stands for all.
Init ==
  /\ fs \in FsStates
  /\ opt \in Options
  /\ opt.respect_gitignore
       \/ (opt.gitignore_depth = None /\ fs.gi = gi_negated)
  /\ pc = "start"
  /\ tree_data = NoTree
  /\ used = <<>>
  /\ calls = <<>>
  /\ WriterIdle
  /\ WalkerIdle

\* one call of build_tree_data on the filesystem, with the options
BuildTreeData ==
  /\ pc = "start"
  /\ LET Returned(r) ==
           /\ pc' = IF r.raised THEN "raised" ELSE "built"
           /\ tree_data' = IF r.raised THEN NoTree ELSE r.tree
           /\ used' = r.used
           /\ calls' = r.calls
     IN  Returned(build_tree_data(fs, opt))
  /\ UNCHANGED <<fs, opt, emoji, paths, disk, wpc, done, failed, walkVars>>

Next == BuildTreeData

Spec == Init /\ [][Next]_vars

\* the option bundles tried on the filesystems with something wrong
FaultOptions ==
  { o \in Options :
      /\ o.max_items = None /\ ~o.no_files /\ ~o.show_all
      /\ ~o.whitelist.given /\ o.extra_ignores = <<>> }

\* build_tree_data on a filesystem with something wrong
InitFaults ==
  /\ fs \in FaultyFsStates
  /\ opt \in FaultOptions
  /\ pc = "start"
  /\ tree_data = NoTree
  /\ used = <<>>
  /\ calls = <<>>
  /\ WriterIdle
  /\ WalkerIdle

SpecFaults == InitFaults /\ [][Next]_vars

(***************************************************************************)
(* write_outputs, one step per destination block.                          *)
(***************************************************************************)
\* write_outputs, line 191
JsonContent(tree, emoji_flag) == format_json(tree)
\* write_outputs, line 196
TxtContent(tree, emoji_flag) == format_text_tree(tree, emoji_flag)
\* the mutant of MdContent: the text as it is, no fence around it
MdContentBare(tree, emoji_flag) == format_text_tree(tree, emoji_flag)

\* write_outputs, lines 201-203
MdContent(tree, emoji_flag) == MarkdownWrap(format_text_tree(tree, emoji_flag))

\* the mutant of Raise: the exception is swallowed and the function goes on
\* with the next destination
SwallowAndContinue(next) == next

\* write_outputs, lines 207-212: both handlers print and re-raise, so the
\* exception leaves write_outputs and the later blocks are not run
Raise(next) == "raised"

\* `with open(path, "w") as f: f.write(content)`: open fails and the
\* destination is untouched, or open creates (or empties) the file and the
\* write fails with `cut` pieces written, or all of it is written
WriteFile(dest, next, content) ==
  \/ /\ disk' = [disk EXCEPT ![dest] = [exists |-> TRUE, content |-> content]]
     /\ done' = done \cup {dest}
     /\ wpc' = next
     /\ UNCHANGED failed
  \/ /\ failed' = failed \cup {dest}
     /\ wpc' = Raise(next)
     /\ UNCHANGED <<disk, done>>
  \/ \E cut \in {0, 1} :
        /\ cut < Len(content)
        /\ disk' = [disk EXCEPT ![dest] =
                      [exists |-> TRUE, content |-> SubSeq(content, 1, cut)]]
        /\ failed' = failed \cup {dest}
        /\ wpc' = Raise(next)
        /\ UNCHANGED done

\* one `if path:` block of write_outputs
WriteBlock(dest, next, content) ==
  /\ wpc = dest
  /\ IF paths[dest] THEN WriteFile(dest, next, content)
     ELSE wpc' = next /\ UNCHANGED <<disk, done, failed>>
  /\ UNCHANGED <<buildVars, emoji, paths, walkVars>>

\* write_outputs, lines 190-193
WriteJson == WriteBlock("json", "txt", JsonContent(tree_data, emoji))
\* write_outputs, lines 195-198
WriteTxt == WriteBlock("txt", "md", TxtContent(tree_data, emoji))
\* write_outputs, lines 200-205
WriteMd == WriteBlock("md", "returned", MdContent(tree_data, emoji))

\* write_outputs is called on a tree build_tree_data returned, with any
\* subset of the three paths given (three different files, each there
\* already or not) and either styling
InitWrite ==
  /\ fs \in {f \in FsStates : f.order = "fwd" /\ f.gi = gi_negated}
  /\ opt \in WriteOptions
  /\ pc = "built"
  /\ LET Returned(r) == tree_data = r.tree /\ used = r.used /\ calls = r.calls
     IN  Returned(build_tree_data(fs, opt))
  /\ emoji \in BOOLEAN
  /\ paths \in [Destinations -> BOOLEAN]
  /\ disk \in [Destinations -> {Absent, OldFile}]
  /\ wpc = "json"
  /\ done = {}
  /\ failed = {}
  /\ WalkerIdle

NextWrite == WriteJson \/ WriteTxt \/ WriteMd

SpecWrite == InitWrite /\ [][NextWrite]_vars


(***************************************************************************)
(* The recursion of build_tree_data step by step, on filesystems where an  *)
(* entry may be a link to a directory above it.  A path is resolved by the *)
(* operating system name by name, a link replacing what was resolved so    *)
(* far by its target; entry.is_file() and entry.is_dir() follow links and  *)
(* are false when the resolution fails.  Ignore rules, extra excludes and  *)
(* the whitelist are off here: they only ever remove entries.              *)
(***************************************************************************)
\* where the entry `name` of the directory `real` leads: to the target of the
\* link, if it is one
EntryTarget(f, real, name) ==
  IF Append(real, name) \in DOMAIN f.links
  THEN f.links[Append(real, name)] ELSE Append(real, name)

\* the number of links followed in resolving the entry's path, `links` of
\* them on the way to its directory
EntryLinks(f, real, links, name) ==
  IF Append(real, name) \in DOMAIN f.links THEN links + 1 ELSE links

\* the mutant of FollowIsDir: links are followed without end
FollowIsDirNoLimit(f, frame, name) == is_dir(EntryTarget(f, frame.real, name))

\* rec, line 97: entry.is_dir(), which follows links; stat fails with ELOOP,
\* and is_dir is False, when more than SymloopMax links are in the way
FollowIsDir(f, frame, name) ==
  /\ EntryLinks(f, frame.real, frame.links, name) <= SymloopMax
  /\ is_dir(EntryTarget(f, frame.real, name))

\* rec, line 92: entry.is_file()
FollowIsFile(f, frame, name) ==
  /\ EntryLinks(f, frame.real, frame.links, name) <= SymloopMax
  /\ is_file(EntryTarget(f, frame.real, name))

\* rec, lines 62-72, once for every directory there is: the names of the
\* entries list_entries returns for it.  The filesystem and the options do
\* not change during a call, so a directory reached again lists the same.
Listings(f, o) ==
  [d \in DirPaths |-> PathNamesOf(CallListEntries(f, o, d, <<>>).entries)]

\* an activation of rec(dirpath, current_depth, ...) at the start of its
\* loop: the path it was called with, the directory that path leads to, the
\* links on the way, and the names still to go through (lines 41-42: none
\* when the depth bound is reached)
Frame(o, ls, dirpath, real, links, current_depth) ==
  [dir |-> dirpath, real |-> real, links |-> links, depth |-> current_depth,
   todo |-> IF DepthReached(o.depth, current_depth) THEN <<>> ELSE ls[real]]

TopFrame == stack[Len(stack)]
Advanced == [stack EXCEPT ![Len(stack)].todo = Tail(@)]
Walking == wk.at = "walking" /\ stack # <<>>

\* the activation rec(entry, current_depth + 1, patterns) of line 101
Called(frame, name) ==
  Frame(opt, wk.ls, Append(frame.dir, name),
        EntryTarget(fs, frame.real, name),
        EntryLinks(fs, frame.real, frame.links, name), frame.depth + 1)

\* rec, lines 92-96: the entry is a file
WalkFile ==
  /\ Walking /\ TopFrame.todo # <<>>
  /\ FollowIsFile(fs, TopFrame, Head(TopFrame.todo))
  /\ stack' = Advanced
  /\ UNCHANGED <<wk, buildVars, emoji, paths, disk, wpc, done, failed>>

\* rec, lines 97-103: the entry is a directory, rec is called on it; a call
\* nested deeper than the interpreter allows raises RecursionError
WalkDir ==
  /\ Walking /\ TopFrame.todo # <<>>
  /\ ~FollowIsFile(fs, TopFrame, Head(TopFrame.todo))
  /\ FollowIsDir(fs, TopFrame, Head(TopFrame.todo))
  /\ IF Len(stack) >= RecursionLimit
     THEN wk' = [wk EXCEPT !.at = "overflow"] /\ UNCHANGED stack
     ELSE /\ stack' = Append(Advanced, Called(TopFrame, Head(TopFrame.todo)))
          /\ wk' = [wk EXCEPT !.deepest = IF Len(stack) + 1 > @
                                          THEN Len(stack) + 1 ELSE @]
  /\ UNCHANGED <<buildVars, emoji, paths, disk, wpc, done, failed>>

\* rec, lines 92 and 97: the entry is neither, no child is made of it
WalkSkip ==
  /\ Walking /\ TopFrame.todo # <<>>
  /\ ~FollowIsFile(fs, TopFrame, Head(TopFrame.todo))
  /\ ~FollowIsDir(fs, TopFrame, Head(TopFrame.todo))
  /\ stack' = Advanced
  /\ UNCHANGED <<wk, buildVars, emoji, paths, disk, wpc, done, failed>>

\* rec, line 112: the loop is over, rec returns; build_tree_data returns
\* when the outermost activation does (lines 115-117)
WalkReturn ==
  /\ Walking /\ TopFrame.todo = <<>>
  /\ stack' = SubSeq(stack, 1, Len(stack) - 1)
  /\ wk' = [wk EXCEPT !.at = IF Len(stack) = 1 THEN "returned" ELSE @]
  /\ UNCHANGED <<buildVars, emoji, paths, disk, wpc, done, failed>>

\* the option bundles the stepwise recursion is run with
WalkOptions ==
  { o \in Options :
      /\ ~o.respect_gitignore /\ o.gitignore_depth = None
      /\ o.extra_ignores = <<>> /\ ~o.whitelist.given }

InitWalk ==
  /\ fs \in LinkedFsStates
  /\ opt \in WalkOptions
  /\ pc = "start"
  /\ tree_data = NoTree
  /\ used = <<>>
  /\ calls = <<>>
  /\ WriterIdle
  /\ LET Started(ls) ==
           /\ wk = [at |-> "walking", deepest |-> 1, ls |-> ls]
           /\ stack = <<Frame(opt, ls, <<>>, <<>>, 0, 0)>>
     IN  Started(Listings(fs, opt))

NextWalk == WalkFile \/ WalkDir \/ WalkSkip \/ WalkReturn

\* the code is sequential: a step that can be taken is taken
SpecWalk == InitWalk /\ [][NextWalk]_vars /\ WF_vars(NextWalk)


(***************************************************************************)
(* What the claims are stated over.                                        *)
(***************************************************************************)
Built == pc = "built"

\* every node of a tree with its path below the root (the root's is <<>>), so
\* that a node's nesting depth is the length of its path
RECURSIVE TreeNodes(_, _)
TreeNodes(node, path) ==
  { [path |-> path, node |-> node] } \cup
  UNION { TreeNodes(ChildrenOf(node)[i], Append(path, ChildrenOf(node)[i].name)) :
            i \in 1..Len(ChildrenOf(node)) }

AllNodes == TreeNodes(tree_data, <<>>)
DirNodes == { n \in AllNodes : n.node.type = "directory" }

IsMarker(child) == child.type = "truncated"
IsEntry(child)  == child.type \in {"file", "directory"}
Markers(node)   == SelectSeq(node.children, IsMarker)
Kids(node)      == SelectSeq(node.children, IsEntry)
Names(nodes)    == [i \in 1..Len(nodes) |-> nodes[i].name]

\* the tree holds a file or directory node for the path
Has(path) == \E n \in AllNodes : n.path = path /\ IsEntry(n.node)

\* a directory of the tree that rec listed: one above the depth bound
IsListed(o, path) == o.depth = None \/ Len(path) < o.depth

\* The rules in force in directory d, stated from the filesystem alone: the
\* rules of the .gitignore files of d's ancestors and of d, from the root
\* down, each file's top to bottom, for the directories whose file is read.
LocalRules(f, o, d) ==
  IF /\ o.respect_gitignore
     /\ within_depth(d, o.gitignore_depth)
     /\ is_file(Append(d, n_gitignore))
  THEN LET Rule(line) == ~SkipsLine(line)
           lines == SelectSeq(f.gi[d], Rule)
       IN  [i \in 1..Len(lines) |-> RewriteLine(PrefixPath(d), lines[i])]
  ELSE <<>>

RECURSIVE RulesDownTo(_, _, _, _)
RulesDownTo(f, o, d, k) ==
  IF k > Len(d) THEN <<>>
  ELSE LocalRules(f, o, SubSeq(d, 1, k)) \o RulesDownTo(f, o, d, k + 1)

ExpectedRules(f, o, d) == RulesDownTo(f, o, d, 0)

\* the children of directory d that pass the entry lister's filters, sorted,
\* before any cap
FilteredChildren(f, o, d) ==
  list_entries(f, d, ExpectedRules(f, o, d), [o EXCEPT !.max_items = None],
               o.no_files).entries

\* ... and of these, after the cap, the files and directories the whitelist
\* keeps: the entries a listed directory is to show, in the lister's order
ShownChildren(f, o, d) ==
  LET Shown(e) == (is_file(e) \/ is_dir(e)) /\ WhitelistKeeps(o.whitelist, e)
  IN  SelectSeq(list_entries(f, d, ExpectedRules(f, o, d), o, o.no_files).entries,
                Shown)

PathNames(entries) == [i \in 1..Len(entries) |-> NameOf(entries[i])]

(***************************************************************************)
(* C1: with a depth bound N, no file or directory node lies deeper than N  *)
(* below the root, and every directory node at depth exactly N has no      *)
(* children (N = 0: the root has none).                                    *)
(***************************************************************************)
C1_DepthBound ==
  Built /\ opt.depth # None =>
    \A n \in AllNodes :
       /\ IsEntry(n.node) => Len(n.path) <= opt.depth
       /\ n.node.type = "directory" /\ Len(n.path) = opt.depth
            => n.node.children = <<>>

\* the bound cuts something: r/s/t holds d.t and is shown empty at depth 2
C1_Witness ==
  /\ Built /\ opt.depth = 2 /\ ~opt.whitelist.given /\ opt.extra_ignores = <<>>
  /\ \E n \in DirNodes : n.path = <<n_s, n_t>> /\ n.node.children = <<>>
  /\ Has(<<n_s, n_ct>>)

(***************************************************************************)
(* C2 as claimed: in every directory of the tree the children other than   *)
(* the marker are at most the cap; a marker is there exactly when the      *)
(* directory's filtered child count exceeds the cap, with count            *)
(* trueCount - cap; with no cap there is no marker and every filtered      *)
(* child is listed.                                                        *)
(***************************************************************************)
CapHolds(n) ==
  LET true == Len(FilteredChildren(fs, opt, n.path))
      cap  == opt.max_items
  IN  /\ cap # None => Len(Kids(n.node)) <= cap
      /\ Markers(n.node) # <<>> <=> (cap # None /\ true > cap)
      /\ \A i \in 1..Len(n.node.children) :
            IsMarker(n.node.children[i]) =>
               /\ i = Len(n.node.children)
               /\ n.node.children[i].name = MarkerName(true - cap)

C2_Claimed ==
  Built =>
    \A n \in DirNodes :
       /\ CapHolds(n)
       /\ opt.max_items = None =>
            LET Kept(e) == WhitelistKeeps(opt.whitelist, e)
            IN  Names(Kids(n.node)) =
                  PathNames(SelectSeq(FilteredChildren(fs, opt, n.path), Kept))

(***************************************************************************)
(* C2 amended: the same for every directory of the tree that is listed     *)
(* (one above the depth bound), where with no cap every filtered child     *)
(* that is a file or a directory is listed; a directory at the depth bound *)
(* has neither children nor marker.                                        *)
(***************************************************************************)
C2_CapAndMarker ==
  Built =>
    \A n \in DirNodes :
       IF IsListed(opt, n.path)
       THEN /\ CapHolds(n)
            /\ opt.max_items = None =>
                 Names(Kids(n.node)) = PathNames(ShownChildren(fs, opt, n.path))
       ELSE n.node.children = <<>>

\* a cap of 2 cuts the root's four children: two are listed, the marker says 2
C2_Witness ==
  /\ Built /\ opt.max_items = 2
  /\ Len(tree_data.children) = 3
  /\ tree_data.children[3] = [name |-> MarkerName(2), type |-> "truncated"]
  /\ Len(FilteredChildren(fs, opt, <<>>)) = 4

(***************************************************************************)
(* C3 as claimed: with a whitelist W, every file node of the tree has its  *)
(* absolute path in W, and every directory node (the root aside) has a     *)
(* descendant file whose absolute path is in W.                            *)
(***************************************************************************)
IsBelow(f, d) == Len(f) > Len(d) /\ SubSeq(f, 1, Len(d)) = d

C3_Whitelist ==
  Built /\ opt.whitelist.given =>
    \A n \in AllNodes :
       /\ n.node.type = "file" => AbsStr(n.path) \in opt.whitelist.paths
       /\ n.node.type = "directory" /\ n.path # <<>> =>
            \E f \in EntryPaths :
               is_file(f) /\ IsBelow(f, n.path) /\ AbsStr(f) \in opt.whitelist.paths

(***************************************************************************)
(* C4: in every sibling list (the marker aside) the directories come       *)
(* before the files, within each kind the names ascend case-insensitively, *)
(* and the siblings are in the order the entry lister returned them.       *)
(***************************************************************************)
C4_Sorted ==
  Built =>
    \A n \in DirNodes :
       LET kids == Kids(n.node)
       IN  /\ \A i, j \in 1..Len(kids) :
                i < j =>
                  /\ ~(kids[i].type = "file" /\ kids[j].type = "directory")
                  /\ kids[i].type = kids[j].type =>
                       ~StrLess(Lower(kids[j].name), Lower(kids[i].name))
           /\ IsListed(opt, n.path) =>
                Names(kids) = PathNames(ShownChildren(fs, opt, n.path))

\* the root shows s/ and sx/ and then a.t before B.p, though the system
\* enumerated B.p first and "B" < "a" as characters
C4_Witness ==
  /\ Built /\ fs.order = "fwd"
  /\ Names(Kids(tree_data)) = <<n_s, n_sx, n_at, n_Bp>>


(***************************************************************************)
(* C5: the rules in force are the ancestors' first and the directory's own *)
(* last, in file order, and the last rule that matches an entry decides:   *)
(* an entry is shown only if that rule is a negation or no rule matches,   *)
(* so a negation re-includes what an ancestor ignored and a later rule     *)
(* re-ignores it.                                                          *)
(***************************************************************************)
RuleMatches(rule, file) ==
  LET Hit(pat) == pat.regex /\ MatchSegs(pat.segs, Split(file, "/"), TRUE)
  IN  Hit(GitWildMatchPattern(rule))

\* the last rule that matches the file is there and is not a negation
LastRuleIgnores(rules, file) ==
  LET hits == { i \in 1..Len(rules) : RuleMatches(rules[i], file) }
      Top(h) == CHOOSE i \in h : \A j \in h : j <= i
  IN  hits # {} /\ Head(Strip(rules[Top(hits)])) # "!"

Ignored(rules, e) ==
  \/ LastRuleIgnores(rules, RelPosix(e))
  \/ is_dir(e) /\ LastRuleIgnores(rules, RelPosix(e) \o <<"/">>)

\* nothing but the ignore rules can remove an entry
Plain(o) ==
  /\ o.depth = None /\ o.max_items = None /\ ~o.no_files
  /\ ~o.whitelist.given /\ o.extra_ignores = <<>>

SubRead(o) == within_depth(<<n_s>>, o.gitignore_depth)

C5_LastMatchWins ==
  Built /\ opt.respect_gitignore =>
    /\ \A n \in DirNodes : \A e \in EntryPaths :
         IsListed(opt, n.path) /\ IsBelow(e, n.path) /\ Len(e) = Len(n.path) + 1
         /\ (is_file(e) \/ is_dir(e)) /\ (opt.show_all \/ ~_hidden(e)) =>
            /\ Has(e) => ~Ignored(ExpectedRules(fs, opt, n.path), e)
            /\ Plain(opt) /\ ~Ignored(ExpectedRules(fs, opt, n.path), e) => Has(e)
    /\ fs.gi = gi_negated =>
         /\ ~Has(<<n_kl>>) /\ ~Has(<<n_s, n_t, n_kl>>)
         /\ Plain(opt) => (Has(<<n_s, n_kl>>) <=> SubRead(opt))
    /\ fs.gi = gi_reignored =>
         /\ SubRead(opt) => ~Has(<<n_s, n_kl>>)
         /\ Plain(opt) =>
              Has(<<n_kl>>) /\ Has(<<n_s, n_t, n_kl>>)
              /\ (~SubRead(opt) => Has(<<n_s, n_kl>>))

\* r ignores *.l and r/s negates k.l: s/k.l is shown, r/k.l is not
C5_Witness ==
  /\ Built /\ opt.respect_gitignore /\ fs.gi = gi_negated
  /\ Has(<<n_s, n_kl>>) /\ ~Has(<<n_kl>>)
  /\ ExpectedRules(fs, opt, <<n_s>>) = <<l_star_l, <<"!", "s", "/", "k", ".", "l">>>>

(***************************************************************************)
(* C6: the rules a directory's .gitignore adds are in force for that       *)
(* directory and below it only: every directory is listed under exactly    *)
(* the rules of its ancestors and its own, no rule of a directory is in    *)
(* force in a directory outside its subtree, and a recursive call leaves   *)
(* the pattern list of its caller as it was.                               *)
(***************************************************************************)
Range(seq) == { seq[i] : i \in 1..Len(seq) }
IsWithin(d, a) == d = a \/ IsBelow(d, a)

C6_SiblingsIsolated ==
  Built =>
    /\ \A i \in 1..Len(used) :
         used[i].patterns = ExpectedRules(fs, opt, used[i].dir)
    /\ \A i, j \in 1..Len(used) :
         ~IsWithin(used[j].dir, used[i].dir) =>
            Range(LocalRules(fs, opt, used[i].dir)) \cap Range(used[j].patterns) = {}
    /\ \A i \in 1..Len(calls) : calls[i].after = calls[i].before

\* r/s and r/sx are both listed, each with rules of its own, s before sx
C6_Witness ==
  /\ Built
  /\ \E i, j \in 1..Len(used) :
        /\ i < j /\ used[i].dir = <<n_s>> /\ used[j].dir = <<n_sx>>
        /\ LocalRules(fs, opt, <<n_s>>) # <<>>
        /\ LocalRules(fs, opt, <<n_sx>>) # <<>>
        /\ LocalRules(fs, opt, <<>>) # <<>>
  /\ Len(calls) >= 3

(***************************************************************************)
(* C7: with extra-exclude globs, no node of the tree has a name or a       *)
(* root-relative posix path matching one of them (shell-style, case        *)
(* sensitive), nothing below an excluded directory is shown, and an entry  *)
(* that matches no glob, on no level of its path, is not removed: if it is *)
(* shown without the globs it is shown with them.                          *)
(***************************************************************************)
GlobHits(path, globs) ==
  \E i \in 1..Len(globs) :
     fnmatchcase(NameOf(path), globs[i]) \/ fnmatchcase(RelPosix(path), globs[i])

GlobOnPath(path, globs) ==
  \E k \in 1..Len(path) : GlobHits(SubSeq(path, 1, k), globs)

EntryPathsOf(tree) ==
  { n.path : n \in { m \in TreeNodes(tree, <<>>) : IsEntry(m.node) } }

C7_ExtraExcludes ==
  Built =>
    /\ \A n \in AllNodes :
         IsEntry(n.node) /\ n.path # <<>> => ~GlobOnPath(n.path, opt.extra_ignores)
    /\ \A q \in EntryPathsOf(build_tree_data(fs, [opt EXCEPT !.extra_ignores = <<>>]).tree) :
         ~GlobOnPath(q, opt.extra_ignores) => Has(q)

\* the globs s/c.t and t: r/s is shown with k.l, without c.t and without t/
C7_Witness ==
  /\ Built /\ opt.extra_ignores = <<g_sct, n_t>> /\ opt.max_items = None
  /\ Has(<<n_s, n_kl>>) /\ ~Has(<<n_s, n_ct>>) /\ ~Has(<<n_s, n_t>>)
  /\ Has(<<n_at>>)

(***************************************************************************)
(* C8: with the no-files flag the tree has no file node, and its           *)
(* directories are those of the tree built without the flag, the childless *)
(* ones included.                                                          *)
(***************************************************************************)
RECURSIVE DirSkeleton(_)
DirSkeleton(node) ==
  LET IsDir(c) == c.type = "directory"
      dirs == SelectSeq(node.children, IsDir)
  IN  [name |-> node.name,
       children |-> [i \in 1..Len(dirs) |-> DirSkeleton(dirs[i])]]

C8_NoFiles ==
  Built /\ opt.no_files =>
    /\ \A n \in AllNodes : n.node.type # "file"
    /\ DirSkeleton(tree_data) =
         DirSkeleton(build_tree_data(fs, [opt EXCEPT !.no_files = FALSE]).tree)

\* r/s/t holds files only: with the flag it is shown, childless
C8_Witness ==
  /\ Built /\ opt.no_files /\ opt.depth = None
  /\ \E n \in DirNodes : n.path = <<n_s, n_t>> /\ n.node.children = <<>>
  /\ \E q \in EntryPathsOf(build_tree_data(fs, [opt EXCEPT !.no_files = FALSE]).tree) :
        is_file(q)


(***************************************************************************)
(* C9: when write_outputs returns (no write failed), every destination     *)
(* whose path is given holds its format of the tree: json format_json, txt *)
(* format_text_tree, md that same text between a ``` line and a ``` line;  *)
(* and a destination whose path is not given is never touched.             *)
(***************************************************************************)
Fenced(text) == <<FENCE, NL>> \o text \o <<NL, FENCE, NL>>

Expected(dest) ==
  CASE dest = "json" -> format_json(tree_data)
    [] dest = "txt"  -> format_text_tree(tree_data, emoji)
    [] dest = "md"   -> Fenced(format_text_tree(tree_data, emoji))

Written(dest) == disk[dest] = [exists |-> TRUE, content |-> Expected(dest)]

C9_WritesRequested ==
  /\ [](wpc = "returned" => \A d \in Destinations : paths[d] => Written(d))
  /\ [][\A d \in Destinations : ~paths[d] => disk'[d] = disk[d]]_vars

\* json and md requested, txt not: both written, the md file fenced, the old
\* txt file and its content still there
C9_Witness ==
  /\ wpc = "returned"
  /\ paths = [json |-> TRUE, txt |-> FALSE, md |-> TRUE]
  /\ done = {"json", "md"}
  /\ disk["txt"] = OldFile
  /\ Written("json") /\ Written("md")
  /\ tree_data.children # <<>>
  /\ disk["md"].content # disk["json"].content

(***************************************************************************)
(* C10: a failed write leaves write_outputs as an exception (it is never   *)
(* swallowed: nothing runs after it), and every destination written        *)
(* completely before it keeps its file and content.                        *)
(***************************************************************************)
C10_FailurePropagates ==
  /\ failed # {} => wpc = "raised"
  /\ \A d \in done : Written(d)

\* json and txt were written, then md failed half-written: the call raised
C10_Witness ==
  /\ wpc = "raised"
  /\ done = {"json", "txt"} /\ failed = {"md"}
  /\ Written("json") /\ Written("txt")
  /\ disk["md"].exists /\ ~Written("md")


(***************************************************************************)
(* C11 as claimed: build_tree_data always returns a tree, whatever the     *)
(* filesystem: no exception leaves it; the root node is a directory; a     *)
(* root that is absent or not a directory has no children; a directory     *)
(* whose listing is denied is shown with no children and everything        *)
(* outside it is shown as if nothing were denied; a .gitignore that cannot *)
(* be read does not stop the traversal.                                    *)
(***************************************************************************)
BelowDenied(q) == \E d \in fs.denied : IsBelow(q, d)

C11_AlwaysATree ==
  /\ pc # "raised"
  /\ Built =>
       /\ tree_data.type = "directory" /\ tree_data.name = RootName
       /\ ~RootIsDir(fs) => tree_data.children = <<>>
       /\ \A n \in DirNodes : n.path \in fs.denied => n.node.children = <<>>
       /\ \A q \in EntryPathsOf(build_tree_data([fs EXCEPT !.denied = {}], opt).tree) :
            ~BelowDenied(q) => Has(q)


(***************************************************************************)
(* The text file, line by line.  A node of the tree is addressed by the    *)
(* positions of its ancestors and itself among their siblings, the         *)
(* truncation marker counting as a child.                                  *)
(***************************************************************************)
RECURSIVE Positions(_)
Positions(node) ==
  UNION { { <<i>> } \cup { <<i>> \o q : q \in Positions(ChildrenOf(node)[i]) } :
          i \in 1..Len(ChildrenOf(node)) }

RECURSIVE NodeAt(_, _)
NodeAt(node, pos) ==
  IF pos = <<>> THEN node ELSE NodeAt(ChildrenOf(node)[Head(pos)], Tail(pos))

\* the node at pos is the last child of its parent
IsLastAt(tree, pos) ==
  pos[Len(pos)] = Len(ChildrenOf(NodeAt(tree, SubSeq(pos, 1, Len(pos) - 1))))

\* depth-first pre-order: a node before the nodes below it, and before its
\* later siblings and what is below them
IsPrefix(p, q) == Len(p) <= Len(q) /\ SubSeq(q, 1, Len(p)) = p

Precedes(p, q) ==
  \/ IsPrefix(p, q)
  \/ \E k \in 1..Len(p) :
        /\ k <= Len(q) /\ p[k] < q[k]
        /\ SubSeq(p, 1, k - 1) = SubSeq(q, 1, k - 1)

\* the number of the line of the node at pos: the root's name is line 1
LineNo(tree, pos) == 1 + Cardinality({ q \in Positions(tree) : Precedes(q, pos) })

\* the lines of the txt file written
TxtWritten == "txt" \in done
TxtLines == Split(disk["txt"].content, NL)

(***************************************************************************)
(* C12: the text has the root's name as its first line and then one line   *)
(* per node in depth-first pre-order; a node's line starts with one glyph  *)
(* per ancestor below the root, blank if that ancestor was a last sibling  *)
(* and the vertical bar otherwise, then the corner connector if the node   *)
(* is the last child of its parent and the branch connector otherwise, and *)
(* ends with the node's name, decorated or not.                            *)
(***************************************************************************)
Continuation(tree, pos) ==
  [k \in 1..(Len(pos) - 1) |->
     IF IsLastAt(tree, SubSeq(pos, 1, k)) THEN SPACE ELSE VERT]

Glyphs == {BRANCH, LAST, VERT, SPACE}

\* the text shows the name, with nothing but an icon and a blank before it
\* or a slash after it
ShowsName(text, name) ==
  \/ text = name
  \/ text = name \o <<"/">>
  \/ Len(text) = Len(name) + 2 /\ SubSeq(text, 3, Len(text)) = name
       /\ text[1] \in {FILE_EMOJI, NORMAL_DIR_EMOJI} /\ text[2] = " "

C12_TextLines ==
  TxtWritten =>
    /\ Len(TxtLines) = 1 + Cardinality(Positions(tree_data))
    /\ TxtLines[1] = tree_data.name
    /\ \A pos \in Positions(tree_data) :
         LET line == TxtLines[LineNo(tree_data, pos)]
         IN  /\ Len(line) > Len(pos)
             /\ SubSeq(line, 1, Len(pos) - 1) = Continuation(tree_data, pos)
             /\ line[Len(pos)] =
                  IF IsLastAt(tree_data, pos) THEN LAST ELSE BRANCH
             /\ ShowsName(SubSeq(line, Len(pos) + 1, Len(line)),
                          NodeAt(tree_data, pos).name)

\* r/s (not the last child) holds t/ which holds two files, r/sx (the last
\* directory) is followed by files: lines with bars, and corners and branches
C12_Witness ==
  /\ TxtWritten /\ opt.depth = None /\ opt.max_items = None
  /\ \E pos \in Positions(tree_data) :
        /\ Len(pos) = 3
        /\ Continuation(tree_data, pos) = <<VERT, VERT>>
        /\ IsLastAt(tree_data, pos)
        /\ Len(TxtLines[LineNo(tree_data, pos)]) > 3
  /\ Len(TxtLines) > 8


(***************************************************************************)
(* C13: after the connector, a line holds, with emoji = TRUE, the name and *)
(* for a directory a slash, and no icon; with emoji = FALSE, the icon of   *)
(* the node's kind, a blank and the name, and no slash; and for the        *)
(* truncation marker its text alone under both settings.                   *)
(***************************************************************************)
Icons == {FILE_EMOJI, NORMAL_DIR_EMOJI}

Decorated(node, flag) ==
  CASE node.type = "truncated" -> node.name
    [] node.type = "directory" ->
         IF flag THEN node.name \o <<"/">>
         ELSE <<NORMAL_DIR_EMOJI, " ">> \o node.name
    [] node.type = "file" ->
         IF flag THEN node.name ELSE <<FILE_EMOJI, " ">> \o node.name

AfterConnector(pos) ==
  SubSeq(TxtLines[LineNo(tree_data, pos)], Len(pos) + 1,
         Len(TxtLines[LineNo(tree_data, pos)]))

C13_Styling ==
  TxtWritten =>
    \A pos \in Positions(tree_data) :
       LET node == NodeAt(tree_data, pos)
           text == AfterConnector(pos)
       IN  /\ text = Decorated(node, emoji)
           /\ emoji \/ node.type = "truncated" => Range(text) \cap Icons = {}
           /\ ~emoji \/ node.type # "directory" => text[Len(text)] # "/"
           /\ FILE_EMOJI # NORMAL_DIR_EMOJI

\* the text of a tree with directories, files and a marker was written with
\* slashes (emoji = TRUE), the marker's line plain
C13_Witness ==
  /\ TxtWritten /\ emoji /\ opt.max_items = 1 /\ opt.depth = None
  /\ \E pos, dir, file \in Positions(tree_data) :
        /\ NodeAt(tree_data, pos).type = "truncated"
        /\ AfterConnector(pos) = NodeAt(tree_data, pos).name
        /\ NodeAt(tree_data, dir).type = "directory"
        /\ AfterConnector(dir) = NodeAt(tree_data, dir).name \o <<"/">>
        /\ NodeAt(tree_data, file).type = "file"


OtherOrder(f) == [f EXCEPT !.order = IF @ = "fwd" THEN "rev" ELSE "fwd"]

SameListing(d, patterns) ==
  CallListEntries(fs, opt, d, patterns)
    = CallListEntries(OtherOrder(fs), opt, d, patterns)

C15_OrderIndependent ==
  Built => \A i \in 1..Len(used) : SameListing(used[i].dir, used[i].patterns)


(***************************************************************************)
(* C16 as claimed: a rule line of the .gitignore of directory D is         *)
(* accumulated with its negation mark in front and D's root-relative path  *)
(* and "/" before the pattern, and a pattern that is anchored (it starts   *)
(* with "/") stays anchored: it matches the entry of that name in D and    *)
(* what is below it, never a same-named entry elsewhere.                   *)
(***************************************************************************)
\* the pattern of a rule line, the negation mark taken off
PatternOf(line) ==
  IF Head(Strip(line)) = "!" THEN Tail(Strip(line)) ELSE Strip(line)

IsAnchored(line) == Head(PatternOf(line)) = "/"

\* the entry an anchored pattern without wildcards names in directory d
AnchoredAt(d, line) == d \o Split(LStrip(PatternOf(line), "/"), "/")

RuleLines(f, d) == { f.gi[d][i] : i \in { j \in 1..Len(f.gi[d]) : ~SkipsLine(f.gi[d][j]) } }

C16_AnchoredStaysAnchored ==
  Built /\ opt.respect_gitignore =>
    \A i \in 1..Len(used) :
       LET d == used[i].dir
       IN  LocalRules(fs, opt, d) # <<>> =>
             \A line \in RuleLines(fs, d) :
                /\ \E k \in 1..Len(used[i].patterns) :
                      LET rule == used[i].patterns[k]
                      IN  /\ (Head(rule) = "!") = (Head(Strip(line)) = "!")
                          /\ IsAnchored(line) \/
                               rule = (IF Head(rule) = "!" THEN <<"!">> ELSE <<>>)
                                        \o PrefixPath(d) \o PatternOf(line)
                          /\ IsAnchored(line) =>
                               \A e \in EntryPaths :
                                  RuleMatches(rule, RelPosix(e))
                                    <=> IsWithin(e, AnchoredAt(d, line))

(***************************************************************************)
(* C17: the whitelist is applied to what the entry lister returned, after  *)
(* the cap: the children shown in a directory are among the entries of the *)
(* capped listing, in its order, and the marker is there, as the last      *)
(* child and with the lister's truncated count, exactly when that count is *)
(* positive, also when the whitelist removed every entry listed.           *)
(***************************************************************************)
CappedListing(d) == CallListEntries(fs, opt, d, ExpectedRules(fs, opt, d))

\* a is b with some elements left out
RECURSIVE IsSubSeq(_, _)
IsSubSeq(a, b) ==
  IF a = <<>> THEN TRUE
  ELSE IF b = <<>> THEN FALSE
  ELSE IF Head(a) = Head(b) THEN IsSubSeq(Tail(a), Tail(b))
  ELSE IsSubSeq(a, Tail(b))

C17_WhitelistAfterCap ==
  Built /\ opt.whitelist.given =>
    \A n \in DirNodes :
       IsListed(opt, n.path) =>
         LET listing == CappedListing(n.path)
             kids    == Kids(n.node)
         IN  /\ IsSubSeq(Names(kids), PathNames(listing.entries))
             /\ n.node.children =
                  IF listing.truncated > 0
                  THEN Append(kids, [name |-> MarkerName(listing.truncated),
                                     type |-> "truncated"])
                  ELSE kids

\* a cap of 1 and an empty whitelist: the root's listing is s/ alone, the
\* whitelist removes it, and the marker still counts the three entries cut
C17_Witness ==
  /\ Built /\ opt.whitelist = [given |-> TRUE, paths |-> {}]
  /\ opt.max_items = 1 /\ opt.depth = None /\ ~opt.no_files
  /\ PathNames(CappedListing(<<>>).entries) = <<n_s>>
  /\ tree_data.children = <<[name |-> MarkerName(3), type |-> "truncated"]>>


====
